---- MODULE Spec2Model ----
(***************************************************************************)
(* A model of AuctionExport's converter, src/auctionexport_to_csv.py: the  *)
(* Lua-table scanner, the ["rows"] locator, the array splitter, the record *)
(* parser, the scalar parser, the column ordering, convert and the batch   *)
(* loop of main.                                                           *)
(*                                                                         *)
(* A text is a sequence of characters, each a string: an ASCII character   *)
(* is the string of that one character, and a character past U+007F is the *)
(* string of its Unicode name, "U+" and its code point in four or more     *)
(* upper-case hexadecimal digits ("U+00A0", "U+3000", "U+1D7CE"): a text   *)
(* of three characters, U+3000 between two letters, is <<"a", "U+3000",    *)
(* "b">>.                                                                  *)
(* Operators that take or return an index use Python's 0-based indices, as *)
(* the source does.                                                        *)
(***************************************************************************)
EXTENDS Integers, Sequences, FiniteSets, Bags, TLC

VARIABLES
    fn,           \* the function a pure-function run applies ("" when none)
    arg,          \* its argument
    ret,          \* its result once applied
    cpc,          \* convert: the position reached in the body of convert
    text,         \* convert: the text read from input_path
    rows_block,   \* convert: the span _find_rows_block returned
    row_tables,   \* convert: the spans _extract_row_tables returned
    rows,         \* convert: the parsed rows (dicts)
    fieldnames,   \* convert: the ordered columns
    csvfile,      \* convert: the output file (Unopened until open())
    cret,         \* convert: the return value or the exception raised
    mpc,          \* main: position ("start", "loop", "done", "raised")
    input_paths,  \* main: the list of inputs
    fs,           \* main: the file system (the inputs and the CSV files)
    idx,          \* main: inputs consumed by the for loop so far
    converted,    \* main: counter
    skipped,      \* main: counter
    failed,       \* main: counter
    log,          \* main: the per-input lines written to the logger
    exitcode      \* main: its return value

scanvars == <<fn, arg, ret>>
convvars == <<cpc, text, rows_block, row_tables, rows, fieldnames, csvfile, cret>>
mainvars == <<mpc, input_paths, fs, idx, converted, skipped, failed, log, exitcode>>
vars == <<fn, arg, ret, cpc, text, rows_block, row_tables, rows, fieldnames,
          csvfile, cret, mpc, input_paths, fs, idx, converted, skipped, failed,
          log, exitcode>>

----------------------------------------------------------------------------
(* Python's str operations, on texts.                                      *)

\* text[i] for 0 <= i < len(text)
At(t, i) == t[i + 1]

\* text[a:b] for 0 <= a, 0 <= b (Python clamps both to len(text))
Slice(t, a, b) ==
    LET hi == IF b > Len(t) THEN Len(t) ELSE b
    IN  IF a >= hi THEN <<>> ELSE SubSeq(t, a + 1, hi)

\* The white space of C's isspace(); "" is U+000B (\v), written as it is.
CSpaces == {" ", "\t", "\n", "\r", "\f", ""}

\* U+001C, U+001D, U+001E and U+001F, written as they are
SeparatorControls == {"", "", "", ""}

\* the white space past U+007F
WideSpaces == {"U+0085", "U+00A0", "U+1680",
               "U+2000", "U+2001", "U+2002", "U+2003", "U+2004", "U+2005",
               "U+2006", "U+2007", "U+2008", "U+2009", "U+200A",
               "U+2028", "U+2029", "U+202F", "U+205F", "U+3000"}

\* str.isspace() of one character
Spaces == CSpaces \cup SeparatorControls \cup WideSpaces

IsSpace(ch) == ch \in Spaces

\* text.startswith(sub, at)
StartsWithAt(t, sub, at) ==
    /\ at + Len(sub) <= Len(t)
    /\ \A k \in 1..Len(sub) : t[at + k] = sub[k]

StartsWith(t, sub) == StartsWithAt(t, sub, 0)

EndsWith(t, sub) == Len(sub) <= Len(t) /\ StartsWithAt(t, sub, Len(t) - Len(sub))

\* text.find(sub, start): the lowest index >= start where sub occurs, else -1
Find(t, sub, start) ==
    LET hits == {i \in start..(Len(t) - Len(sub)) : StartsWithAt(t, sub, i)}
    IN  IF hits = {} THEN -1
        ELSE CHOOSE i \in hits : \A j \in hits : i <= j

\* The loops of the source that walk a text one character at a time are
\* taken a run at a time: FirstIdx is the index the walk stops at, the first
\* j >= i at which (text[j] in chars) = stop, or len(text) when there is none.
FirstIdx(t, i, chars, stop) ==
    IF i >= Len(t) THEN i
    ELSE CHOOSE j \in i..Len(t) :
            /\ j = Len(t) \/ (At(t, j) \in chars) = stop
            /\ \A k \in i..(j - 1) : (At(t, k) \in chars) # stop

\* t without the characters of chars at its two ends
StripOf(t, chars) ==
    LET lo == FirstIdx(t, 0, chars, FALSE) IN
    IF lo >= Len(t) THEN <<>>
    ELSE LET hi == CHOOSE j \in (lo + 1)..Len(t) :
                      /\ t[j] \notin chars
                      /\ \A k \in (j + 1)..Len(t) : t[k] \in chars
         IN  SubSeq(t, lo + 1, hi)

\* text.strip()
Strip(t) == StripOf(t, Spaces)

\* A call's outcome: a value, or the ValueError raised (by its message).
NoExc == "none"
Ok(v) == [exc |-> NoExc, val |-> v]
Raise(msg) == [exc |-> msg, val |-> <<>>]

ErrBadStart == "start must point at '{'"
ErrUnbalanced == "Unbalanced braces while parsing Lua table"
ErrNoRowsKey == "Could not find [\"rows\"] in input file"
ErrNoBrace == "Could not find opening \"{\" after [\"rows\"]"
ErrRowsBlock == "rows_block is not a Lua table"
ErrRowTable == "row_table is not a Lua table"
ErrZeroRows == "Parsed 0 rows from [\"rows\"]"
\* the ValueError of str() of an int of more than 4300 digits
ErrStrDigits == "Exceeds the limit (4300 digits) for integer string conversion; use sys.set_int_max_str_digits() to increase the limit"

----------------------------------------------------------------------------
(* Lexical scanner.                                                        *)

\* _skip_lua_string: text[i] is '"'; the index past the closing quote, a
\* backslash skipping two characters.
QuoteOrBackslash == {"\"", "\\"}

RECURSIVE skip_loop(_, _)
skip_loop(t, i) ==
    LET j == FirstIdx(t, i, QuoteOrBackslash, TRUE) IN
    IF j >= Len(t) THEN j
    ELSE IF At(t, j) = "\\" THEN skip_loop(t, j + 2)
    ELSE j + 1

skip_lua_string(t, i) == skip_loop(t, i + 1)

\* The while loop of _extract_balanced_braces, at index i with the given depth.
QuoteOrBrace == {"\"", "{", "}"}
Brace == {"{", "}"}

RECURSIVE balanced_loop(_, _, _, _)
balanced_loop(t, start, i0, depth) ==
    LET i == FirstIdx(t, i0, QuoteOrBrace, TRUE) IN
    IF i >= Len(t) THEN Raise(ErrUnbalanced)
    ELSE IF At(t, i) = "\"" THEN balanced_loop(t, start, skip_lua_string(t, i), depth)
    ELSE IF At(t, i) = "{" THEN balanced_loop(t, start, i + 1, depth + 1)
    ELSE IF depth - 1 = 0 THEN Ok(Slice(t, start, i + 1))
    ELSE balanced_loop(t, start, i + 1, depth - 1)

\* A scanner that counts the braces inside quoted strings too.
extract_ignoring_strings(t, start) ==
    LET RECURSIVE loop(_, _)
        loop(i0, depth) ==
            LET i == FirstIdx(t, i0, Brace, TRUE) IN
            IF i >= Len(t) THEN Raise(ErrUnbalanced)
            ELSE IF At(t, i) = "{" THEN loop(i + 1, depth + 1)
            ELSE IF depth - 1 = 0 THEN Ok(Slice(t, start, i + 1))
            ELSE loop(i + 1, depth - 1)
    IN  IF start < 0 \/ start >= Len(t) THEN Raise(ErrBadStart)
        ELSE IF At(t, start) # "{" THEN Raise(ErrBadStart)
        ELSE loop(start, 0)

\* _extract_balanced_braces
extract_balanced_braces(t, start) ==
    IF start < 0 \/ start >= Len(t) THEN Raise(ErrBadStart)
    ELSE IF At(t, start) # "{" THEN Raise(ErrBadStart)
    ELSE balanced_loop(t, start, start, 0)

----------------------------------------------------------------------------
(* Table locator and array splitter.                                       *)

RowsKey == <<"[", "\"", "r", "o", "w", "s", "\"", "]">>

\* A locator that takes the first brace of the text, not the first one
\* after the key.
find_rows_block_first_brace(t) ==
    LET rows_key_pos == Find(t, RowsKey, 0) IN
    IF rows_key_pos = -1 THEN Raise(ErrNoRowsKey)
    ELSE LET brace_pos == Find(t, <<"{">>, 0) IN
         IF brace_pos = -1 THEN Raise(ErrNoBrace)
         ELSE extract_balanced_braces(t, brace_pos)

\* _find_rows_block
find_rows_block(t) ==
    LET rows_key_pos == Find(t, RowsKey, 0) IN
    IF rows_key_pos = -1 THEN Raise(ErrNoRowsKey)
    ELSE LET brace_pos == Find(t, <<"{">>, rows_key_pos) IN
         IF brace_pos = -1 THEN Raise(ErrNoBrace)
         ELSE extract_balanced_braces(t, brace_pos)

\* The while loop of _extract_row_tables over inner, at index i, with the
\* rows captured so far.
\* (white space, commas and unexpected characters all advance i by one)
QuoteOrOpen == {"\"", "{"}

RECURSIVE row_tables_loop(_, _, _)
row_tables_loop(inner, i0, acc) ==
    LET i == FirstIdx(inner, i0, QuoteOrOpen, TRUE) IN
    IF i >= Len(inner) THEN Ok(acc)
    ELSE IF At(inner, i) = "\""
         THEN row_tables_loop(inner, skip_lua_string(inner, i), acc)
    ELSE LET row_text == extract_balanced_braces(inner, i) IN
         IF row_text.exc # NoExc THEN row_text
         ELSE row_tables_loop(inner, i + Len(row_text.val),
                              Append(acc, row_text.val))

\* _extract_row_tables
extract_row_tables(block) ==
    LET inner == Strip(block) IN
    IF ~(StartsWith(inner, <<"{">>) /\ EndsWith(inner, <<"}">>))
    THEN Raise(ErrRowsBlock)
    ELSE row_tables_loop(Slice(inner, 1, Len(inner) - 1), 0, <<>>)

----------------------------------------------------------------------------
(* Values of a row: Python's str, bool, None, int and float.               *)
(* An int is held as its sign and its decimal digits (numbers 0..9, the   *)
(* highest first, <<0>> for zero), as a Python int has no bound.  A float  *)
(* is held as what repr() shows of the double: (-1)^neg * digits * 10^e    *)
(* with digits the shortest decimal that reads back as the double, without *)
(* leading or trailing zeros (<<0>> and e = 0 for zero), or as inf.        *)

RECURSIVE NatDigits(_)
NatDigits(n) == IF n < 10 THEN <<n>> ELSE NatDigits(n \div 10) \o <<n % 10>>

VStr(s) == [tag |-> "str", s |-> s]
VBool(b) == [tag |-> "bool", b |-> b]
VNone == [tag |-> "None"]
VIntOf(neg, digits) == [tag |-> "int", neg |-> neg, digits |-> digits]
VInt(n) == IF n < 0 THEN VIntOf(TRUE, NatDigits(0 - n)) ELSE VIntOf(FALSE, NatDigits(n))
VFloatOf(neg, digits, e) ==
    [tag |-> "float", neg |-> neg, digits |-> digits, e |-> e, inf |-> FALSE]
VFloat(neg, m, e) == VFloatOf(neg, NatDigits(m), e)
VInf(neg) == [tag |-> "float", neg |-> neg, digits |-> <<0>>, e |-> 0, inf |-> TRUE]

DecDigits == <<"0", "1", "2", "3", "4", "5", "6", "7", "8", "9">>
HexLower == <<"a", "b", "c", "d", "e", "f">>
HexUpper == <<"A", "B", "C", "D", "E", "F">>

\* n in hexadecimal, in w digits or more
RECURSIVE HexOf(_, _)
HexOf(n, w) ==
    IF n = 0 /\ w <= 0 THEN ""
    ELSE HexOf(n \div 16, w - 1) \o (DecDigits \o HexUpper)[(n % 16) + 1]

\* the name of the character of code point cp
UName(cp) == "U+" \o HexOf(cp, 4)

\* int() and float() read every decimal digit of Unicode (unicodedata 14.0,
\* the 650 characters past ASCII with a decimal value) as the ASCII digit of
\* its value.  They come in runs of ten, 0 to 9 in order: these are the code
\* points of the zero of each run.
NdZeros == {\H0660, \H06F0, \H07C0, \H0966, \H09E6, \H0A66, \H0AE6, \H0B66,
            \H0BE6, \H0C66, \H0CE6, \H0D66, \H0DE6, \H0E50, \H0ED0, \H0F20,
            \H1040, \H1090, \H17E0, \H1810, \H1946, \H19D0, \H1A80, \H1A90,
            \H1B50, \H1BB0, \H1C40, \H1C50, \HA620, \HA8D0, \HA900, \HA9D0,
            \HA9F0, \HAA50, \HABF0, \HFF10, \H104A0, \H10D30, \H11066, \H110F0,
            \H11136, \H111D0, \H112F0, \H11450, \H114D0, \H11650, \H116C0, \H11730,
            \H118E0, \H11950, \H11C50, \H11D50, \H11DA0, \H16A60, \H16AC0, \H16B50,
            \H1D7CE, \H1D7D8, \H1D7E2, \H1D7EC, \H1D7F6, \H1E140, \H1E2F0, \H1E950,
            \H1FBF0}

\* DecimalChars[k]: the characters of decimal value k - 1
DecimalChars ==
    [k \in 1..10 |-> {DecDigits[k]} \cup {UName(z + k - 1) : z \in NdZeros}]

IsDecDigit(ch) == \E k \in 1..10 : ch \in DecimalChars[k]
IsHexDigit(ch) ==
    IsDecDigit(ch) \/ \E k \in 1..6 : HexLower[k] = ch \/ HexUpper[k] = ch

DigitVal(ch) ==
    IF IsDecDigit(ch) THEN (CHOOSE k \in 1..10 : ch \in DecimalChars[k]) - 1
    ELSE (CHOOSE k \in 1..6 : HexLower[k] = ch \/ HexUpper[k] = ch) + 9

\* A run of digits in which single underscores may separate digits, as
\* int() and float() accept them.
IsDigitRun(t, hex) ==
    /\ Len(t) > 0
    /\ \A k \in 1..Len(t) :
          \/ IF hex THEN IsHexDigit(t[k]) ELSE IsDecDigit(t[k])
          \/ /\ t[k] = "_"
             /\ 1 < k /\ k < Len(t)
             /\ t[k - 1] # "_" /\ t[k + 1] # "_"

RunDigits(t) == Cardinality({k \in 1..Len(t) : t[k] # "_"})

IsSign(ch) == ch \in {"+", "-"}

SignOf(t) == IF Len(t) > 0 /\ IsSign(t[1]) THEN t[1] ELSE ""
Unsigned(t) == IF SignOf(t) = "" THEN t ELSE Tail(t)

\* ---- exact arithmetic for int() and float(): naturals of any size ----
\* A natural is held as its limbs, base 1000, the lowest first, without
\* high zero limbs (zero is the empty sequence); a decimal as its digits
\* (numbers 0..9), the highest first.

LimbBase == 1000

Max(a, b) == IF a >= b THEN a ELSE b
Min(a, b) == IF a <= b THEN a ELSE b

\* the number without its high zero limbs
TrimLimbs(a) ==
    LET nz == {k \in 1..Len(a) : a[k] # 0}
    IN  IF nz = {} THEN <<>>
        ELSE SubSeq(a, 1, CHOOSE k \in nz : \A j \in nz : j <= k)

LimbAt(a, k) == IF 1 <= k /\ k <= Len(a) THEN a[k] ELSE 0

\* a + b, the carries found without walking the limbs one by one: a carry
\* enters limb k when a lower limb overflows and all limbs between pass it on
BigAdd(a, b) ==
    IF a = <<>> THEN b
    ELSE IF b = <<>> THEN a
    ELSE
    LET n == Max(Len(a), Len(b)) + 1
        sum == [k \in 1..n |-> LimbAt(a, k) + LimbAt(b, k)]
        carry(k) == \E j \in 1..(k - 1) :
                        /\ sum[j] >= LimbBase
                        /\ \A i \in (j + 1)..(k - 1) : sum[i] = LimbBase - 1
    IN  TrimLimbs([k \in 1..n |->
                      (sum[k] + IF carry(k) THEN 1 ELSE 0) % LimbBase])

\* a shifted up by n limbs: a * 1000^n
BigShift(a, n) == IF a = <<>> THEN <<>> ELSE [k \in 1..n |-> 0] \o a

\* the sum of the values of a function to the naturals: the size of the
\* bag with so many copies of each argument
SumOf(f) == BagCardinality([i \in {i \in DOMAIN f : f[i] # 0} |-> f[i]])

\* column k of the product: the sum of a[i] * b[k + 1 - i]
ColumnSum(a, b, k) ==
    SumOf([i \in Max(1, k + 1 - Len(b))..Min(k, Len(a)) |-> a[i] * b[k + 1 - i]])

\* the number of the column sums col (each below 1000^3): their three
\* limbs added, each at its place
AddColumns(col) ==
    IF col = <<>> THEN <<>>
    ELSE BigAdd(BigAdd(TrimLimbs([k \in 1..Len(col) |-> col[k] % LimbBase]),
                       BigShift(TrimLimbs([k \in 1..Len(col) |->
                                    (col[k] \div LimbBase) % LimbBase]), 1)),
                BigShift(TrimLimbs([k \in 1..Len(col) |->
                             col[k] \div (LimbBase * LimbBase)]), 2))

\* a * b
BigMul(a, b) ==
    IF a = <<>> \/ b = <<>> THEN <<>>
    ELSE AddColumns([k \in 1..(Len(a) + Len(b) - 1) |-> ColumnSum(a, b, k)])

\* x^k for a natural x, by squaring
RECURSIVE BigPow(_, _)
BigPow(x, k) ==
    IF k = 0 THEN <<1>>
    ELSE LET h == BigPow(x, k \div 2)
         IN  IF h = <<>> THEN <<>>
             ELSE BigMul(BigMul(h, h), IF k % 2 = 1 THEN x ELSE <<1>>)

\* the decimal digits of a natural (none for zero), and back
DigitsOfBig(a) ==
    IF a = <<>> THEN <<>>
    ELSE
    LET all == [p \in 1..(3 * Len(a)) |->
                   LET limb == a[Len(a) - ((p - 1) \div 3)]
                       j == (p - 1) % 3
                   IN  IF j = 0 THEN limb \div 100
                       ELSE IF j = 1 THEN (limb \div 10) % 10
                       ELSE limb % 10]
        nz == {p \in 1..Len(all) : all[p] # 0}
    IN  IF nz = {} THEN <<>>
        ELSE SubSeq(all, CHOOSE p \in nz : \A r \in nz : p <= r, Len(all))

DigitAt(ds, p) == IF 1 <= p /\ p <= Len(ds) THEN ds[p] ELSE 0

BigOfDigits(ds) ==
    IF ds = <<>> THEN <<>>
    ELSE
    LET n == Len(ds)
    IN  TrimLimbs([k \in 1..((n + 2) \div 3) |->
                      100 * DigitAt(ds, n - 3 * k + 1)
                      + 10 * DigitAt(ds, n - 3 * k + 2)
                      + DigitAt(ds, n - 3 * k + 3)])

\* ---- float(): the nearest double of a decimal ----
\* Digits are numbers 0..9, the highest first.

ZeroDigits(k) == [j \in 1..k |-> 0]

\* digits without the leading zeros / without the trailing zeros
StripLeadingZeros(ds) ==
    LET nz == {p \in 1..Len(ds) : ds[p] # 0}
    IN  IF nz = {} THEN <<>>
        ELSE SubSeq(ds, CHOOSE p \in nz : \A r \in nz : p <= r, Len(ds))

StripTrailingZeros(ds) ==
    LET nz == {p \in 1..Len(ds) : ds[p] # 0}
    IN  IF nz = {} THEN <<>>
        ELSE SubSeq(ds, 1, CHOOSE p \in nz : \A r \in nz : r <= p)

\* a < b for digit sequences of one length
LexLess(a, b) ==
    \E k \in 1..Len(a) : a[k] < b[k] /\ \A j \in 1..(k - 1) : a[j] = b[j]

\* a < b for naturals written without leading zeros
DigitsLess(a, b) == Len(a) < Len(b) \/ (Len(a) = Len(b) /\ LexLess(a, b))

\* the decimal ds * 10^E divided by 2^b, exactly, as <<digits, exponent>>:
\* times 2^-b when b <= 0, and times 5^b / 10^b when b > 0
Scaled(ds, E, b) ==
    [d |-> DigitsOfBig(BigMul(BigOfDigits(ds),
                              IF b <= 0 THEN BigPow(<<2>>, 0 - b)
                              ELSE BigPow(<<5>>, b))),
     x |-> IF b <= 0 THEN E ELSE E - b]

\* the integer part of a decimal, without leading zeros, and the digits
\* after its point
IntPart(dec) ==
    IF dec.d = <<>> THEN <<>>
    ELSE IF dec.x >= 0 THEN dec.d \o ZeroDigits(dec.x)
    ELSE IF Len(dec.d) + dec.x <= 0 THEN <<>>
    ELSE SubSeq(dec.d, 1, Len(dec.d) + dec.x)

FracPart(dec) ==
    IF dec.x >= 0 THEN <<>>
    ELSE IF Len(dec.d) + dec.x <= 0 THEN ZeroDigits(0 - dec.x - Len(dec.d)) \o dec.d
    ELSE SubSeq(dec.d, Len(dec.d) + dec.x + 1, Len(dec.d))

\* a tail of digits against one half of the unit before it: -1, 0 or 1
AgainstHalf(tail) ==
    IF tail = <<>> \/ tail[1] < 5 THEN -1
    ELSE IF tail[1] > 5 THEN 1
    ELSE IF \E p \in 2..Len(tail) : tail[p] # 0 THEN 1
    ELSE 0

IsOddDigits(ds) == ds # <<>> /\ ds[Len(ds)] % 2 = 1

MantBits == 53
MinBinExp == -1074
MaxBinExp == 971

\* The double nearest to the decimal ds * 10^E, ties to even, for ds without
\* leading zeros and not empty, is found in steps.  It is [sig, b] for
\* sig * 2^b with 2^52 <= sig < 2^53, or sig < 2^52 and b = -1074; sig is a
\* natural in limbs.  b above 971 is an overflow.

\* a first binary exponent: floor(log2 of the value) is within the eight
\* above 52 more than it
FirstBinExp(ds, E) == ((Len(ds) + E - 1) * 3322) \div 1000 - 2 - (MantBits - 1)

\* the binary exponent b0 raised until the integer part q of value / 2^b0
\* is below 2^53, and not below the exponent of the subnormals
BinExpFrom(b0, q) ==
    IF q = <<>> THEN MinBinExp
    ELSE
    Max(b0 + Cardinality({k \in 1..8 :
                 ~DigitsLess(q, DigitsOfBig(BigPow(<<2>>, MantBits - 1 + k)))}),
        MinBinExp)

BinExp(ds, E) ==
    BinExpFrom(FirstBinExp(ds, E), IntPart(Scaled(ds, E, FirstBinExp(ds, E))))

\* the integer part ip of value / 2^b rounded by what follows it
RoundHalfEven(ip, half) ==
    BigAdd(BigOfDigits(ip),
           IF half = 1 \/ (half = 0 /\ IsOddDigits(ip)) THEN <<1>> ELSE <<>>)

\* a significand rounded up to 2^53 is 2^52 at the next exponent
Renormal(sig, b) ==
    IF sig = BigPow(<<2>>, MantBits)
    THEN [sig |-> BigPow(<<2>>, MantBits - 1), b |-> b + 1]
    ELSE [sig |-> sig, b |-> b]

\* value / 2^b rounded; above the largest exponent whatever the significand
NearestAt(dec, b) ==
    IF dec.d = <<>> THEN [sig |-> <<>>, b |-> b]
    ELSE Renormal(RoundHalfEven(IntPart(dec), AgainstHalf(FracPart(dec))), b)

NearestWith(ds, E, b) ==
    IF b > MaxBinExp THEN [sig |-> <<>>, b |-> b]
    ELSE NearestAt(Scaled(ds, E, b), b)

NearestDouble(ds, E) == NearestWith(ds, E, BinExp(ds, E))

\* ---- repr() of a double: the shortest decimal that reads back ----
\* The decimals float() reads back as the double sig * 2^b are those between
\* the midpoints to its two neighbours, the midpoints themselves when sig is
\* even; below a power of two the lower neighbour is at half the distance.
\* repr() shows the shortest of them, and of those the one nearest to the
\* double.  All is counted in units of 2^(b - 2) and written in decimal with
\* one exponent.

PadLeft(ds, n) == ZeroDigits(n - Len(ds)) \o ds

\* a - 1 for a natural a > 0
BigPred(a) ==
    LET k == CHOOSE i \in 1..Len(a) : a[i] # 0 /\ \A j \in 1..(i - 1) : a[j] = 0
    IN  TrimLimbs([j \in 1..Len(a) |->
                      IF j < k THEN LimbBase - 1
                      ELSE IF j = k THEN a[j] - 1 ELSE a[j]])

ReprDigits == 17

\* the lower midpoint for the double four / 4 units: one unit below when
\* the double is a power of two above the subnormals, two otherwise
LowMidpoint(sig, b, four) ==
    IF sig = BigPow(<<2>>, MantBits - 1) /\ b > MinBinExp THEN BigPred(four)
    ELSE BigPred(BigPred(four))

\* w units as decimal digits, unit being 2^(b - 2) or 5^(2 - b) / 10^(2 - b)
UnitPower(b) == IF b - 2 >= 0 THEN BigPow(<<2>>, b - 2) ELSE BigPow(<<5>>, 2 - b)

\* the lower midpoint, the double and the upper midpoint in digits of one
\* length, one more than the longest needs
PaddedTo(lo, mid, hi, n) ==
    [lo |-> PadLeft(lo, n), x |-> PadLeft(mid, n), hi |-> PadLeft(hi, n)]

Padded(lo, mid, hi) == PaddedTo(lo, mid, hi, Len(hi) + 1)

IntervalOf(low, four, unit) ==
    IF unit = <<>> \/ low = <<>> THEN PaddedTo(<<>>, <<>>, <<>>, 0)
    ELSE
    Padded(DigitsOfBig(BigMul(low, unit)), DigitsOfBig(BigMul(four, unit)),
           DigitsOfBig(BigMul(BigAdd(four, <<2>>), unit)))

\* the digits xs cut after position cut, and that plus one at the position
FloorAt(xs, cut) == SubSeq(xs, 1, cut) \o ZeroDigits(Len(xs) - cut)

CeilAt(xs, cut) ==
    PadLeft(DigitsOfBig(BigAdd(BigOfDigits(SubSeq(xs, 1, cut)), <<1>>)), cut)
        \o ZeroDigits(Len(xs) - cut)

\* a <= b, or a < b when the end is not part of the interval
Within(a, b, incl) == LexLess(a, b) \/ (incl /\ a = b)

\* the position of the first digit of xs that is not zero
FirstDigit(xs) ==
    CHOOSE i \in 1..Len(xs) : xs[i] # 0 /\ \A j \in 1..(i - 1) : xs[j] = 0

\* the position after which to cut for n digits
CutFor(xs, n) == Min(FirstDigit(xs) + n - 1, Len(xs))

\* the numbers of digits with which a decimal in the interval can be written
FitDigits(iv, incl) ==
    {n \in 1..ReprDigits :
        \/ Within(iv.lo, FloorAt(iv.x, CutFor(iv.x, n)), incl)
        \/ Within(CeilAt(iv.x, CutFor(iv.x, n)), iv.hi, incl)}

\* of the two decimals cut at a position the one in the interval, the
\* nearer to the double when both are, the even one when both are as near
NearerOf(xs, cut, floor_ok, ceil_ok, half) ==
    IF ~floor_ok \/ (ceil_ok /\ (half = 1 \/ (half = 0 /\ xs[cut] % 2 = 1)))
    THEN CeilAt(xs, cut)
    ELSE FloorAt(xs, cut)

ShortestAt(iv, incl, cut) ==
    NearerOf(iv.x, cut,
             Within(iv.lo, FloorAt(iv.x, cut), incl),
             Within(CeilAt(iv.x, cut), iv.hi, incl),
             AgainstHalf(SubSeq(iv.x, cut + 1, Len(iv.x))))

ShortestIn(iv, incl, fits) ==
    ShortestAt(iv, incl, CutFor(iv.x, CHOOSE k \in fits : \A j \in fits : k <= j))

\* the digits c with exponent x, without leading and trailing zeros
Stripped(c, x) ==
    [digits |-> StripLeadingZeros(StripTrailingZeros(c)),
     e |-> x + (Len(c) - Len(StripTrailingZeros(c)))]

ShortestOf(iv, incl, x) ==
    IF iv.x = <<>> THEN Stripped(<<>>, x)
    ELSE Stripped(ShortestIn(iv, incl, FitDigits(iv, incl)), x)

ShortestWith(sig, b, four) ==
    ShortestOf(IntervalOf(LowMidpoint(sig, b, four), four, UnitPower(b)),
               sig[1] % 2 = 0,
               IF b - 2 >= 0 THEN 0 ELSE b - 2)

\* [digits, e] for digits * 10^e, of the double sig * 2^b with sig > 0
ShortestDecimal(sig, b) == ShortestWith(sig, b, BigMul(sig, <<4>>))

\* ---- int(token), int(token, 16), float(token) ----

\* the digits of a run, the underscores left out
RunDigitSeq(t) ==
    LET kept == SelectSeq(t, LAMBDA ch : ch # "_")
    IN  [k \in 1..Len(kept) |-> DigitVal(kept[k])]

\* the digits of a natural: <<0>> for zero
NatOrZero(ds) ==
    IF StripLeadingZeros(ds) = <<>> THEN <<0>> ELSE StripLeadingZeros(ds)

\* the value of digits in a small base, as a natural in limbs (by halves)
RECURSIVE BigOfRun(_, _)
BigOfRun(ds, base) ==
    IF Len(ds) = 0 THEN <<>>
    ELSE IF Len(ds) = 1 THEN TrimLimbs(<<ds[1]>>)
    ELSE LET mid == Len(ds) \div 2
             high == BigOfRun(SubSeq(ds, 1, mid), base)
             low == BigOfRun(SubSeq(ds, mid + 1, Len(ds)), base)
         IN  BigAdd(BigMul(high, BigPow(<<base>>, Len(ds) - mid)), low)

\* sys.int_info.default_max_str_digits: int() of more decimal digits raises
\* ValueError
MaxStrDigits == 4300

\* int() and float() first turn every white space past ASCII into a space
\* and then drop C's white space at the two ends: U+001C to U+001F stay.
NumStrip(token) == StripOf(token, CSpaces \cup WideSpaces)

\* int() of a token without white space at its ends
Int10Of(token) ==
    LET body == Unsigned(token) IN
    IF ~IsDigitRun(body, FALSE) \/ RunDigits(body) > MaxStrDigits
    THEN [ok |-> FALSE, v |-> VNone]
    ELSE LET ds == NatOrZero(RunDigitSeq(body))
         IN  [ok |-> TRUE, v |-> VIntOf(SignOf(token) = "-" /\ ds # <<0>>, ds)]

\* int(token): not ok when it raises ValueError
PyInt10(token) == Int10Of(NumStrip(token))

\* int(, 16) of a token without white space at its ends: an optional sign,
\* an optional 0x / 0X prefix (its zero any decimal zero), after which one
\* underscore may come, and a run of hex digits
Int16Of(token) ==
    LET u == Unsigned(token)
        pre == /\ Len(u) >= 2
               /\ u[1] \in DecimalChars[1]
               /\ u[2] \in {"x", "X"}
        b0 == IF pre THEN Slice(u, 2, Len(u)) ELSE u
        body == IF pre /\ Len(b0) > 1 /\ b0[1] = "_" THEN Tail(b0) ELSE b0
    IN  IF ~IsDigitRun(body, TRUE) THEN [ok |-> FALSE, v |-> VNone]
        ELSE LET ds == NatOrZero(DigitsOfBig(BigOfRun(RunDigitSeq(body), 16)))
             IN  [ok |-> TRUE, v |-> VIntOf(SignOf(token) = "-" /\ ds # <<0>>, ds)]

\* int(token, 16): not ok when it raises ValueError
PyInt16(token) == Int16Of(NumStrip(token))

\* the value of a few digits
RECURSIVE DigitsValue(_)
DigitsValue(ds) ==
    IF ds = <<>> THEN 0
    ELSE DigitsValue(SubSeq(ds, 1, Len(ds) - 1)) * 10 + ds[Len(ds)]

\* the exponent of the value in scientific notation, d.ddd * 10^SciExp
SciExp(v) == v.e + Len(v.digits) - 1

\* A decimal of up to 15 significant digits within the normal range reads
\* back from its double (DBL_DIG), so it is its own shortest decimal.
RoundTripDigits == 15
MinNormalExp == -307
MaxNormalExp == 307
\* no decimal of 1e310 or more is finite, none below 1e-325 is above zero
MaxDecExp == 309
MinDecExp == -325

ShownAs(neg, sd) == VFloatOf(neg, sd.digits, sd.e)

\* the float of the double r, or inf when r is past the largest double
RoundedTo(neg, r) ==
    IF r.b > MaxBinExp THEN VInf(neg)
    ELSE IF r.sig = <<>> THEN VFloatOf(neg, <<0>>, 0)
    ELSE ShownAs(neg, ShortestDecimal(r.sig, r.b))

\* The float read from the decimal ds * 10^E (ds without leading or trailing
\* zeros): the double nearest to it, ties to even, shown as repr() shows it.
Rounded(neg, ds, E) ==
    IF ds = <<>> THEN VFloatOf(neg, <<0>>, 0)
    ELSE IF Len(ds) + E - 1 > MaxDecExp THEN VInf(neg)
    ELSE IF Len(ds) + E - 1 < MinDecExp THEN VFloatOf(neg, <<0>>, 0)
    ELSE IF /\ Len(ds) <= RoundTripDigits
            /\ MinNormalExp <= Len(ds) + E - 1
            /\ Len(ds) + E - 1 <= MaxNormalExp
         THEN VFloatOf(neg, ds, E)
    ELSE RoundedTo(neg, NearestDouble(ds, E))

\* float() reads an exponent of more than nine digits (leading zeros apart)
\* as 1100000000, and raises on more than 1000000000 digits after the leading
\* zeros or after the point.
MaxExpDigits == 9
MaxAbsExp == 1100000000
MaxDigits == 1000000000

\* float() of a token without white space at its ends
FloatOf(token) ==
    LET u == Unsigned(token)
        epos == {k \in 1..Len(u) : u[k] \in {"e", "E"}}
        ecut == IF epos = {} THEN Len(u) + 1
                ELSE CHOOSE k \in epos : \A j \in epos : k <= j
        mant == SubSeq(u, 1, ecut - 1)
        expo == IF ecut > Len(u) THEN <<>> ELSE SubSeq(u, ecut + 1, Len(u))
        dpos == {k \in 1..Len(mant) : mant[k] = "."}
        dcut == IF dpos = {} THEN Len(mant) + 1
                ELSE CHOOSE k \in dpos : \A j \in dpos : k <= j
        ipart == SubSeq(mant, 1, dcut - 1)
        fpart == IF dcut > Len(mant) THEN <<>> ELSE SubSeq(mant, dcut + 1, Len(mant))
        ebody == Unsigned(expo)
        mant_ok == /\ ipart = <<>> \/ IsDigitRun(ipart, FALSE)
                   /\ fpart = <<>> \/ IsDigitRun(fpart, FALSE)
                   /\ ~(ipart = <<>> /\ fpart = <<>>)
        exp_ok == epos = {} \/ IsDigitRun(ebody, FALSE)
        eds == StripLeadingZeros(RunDigitSeq(ebody))
        eabs == IF Len(eds) > MaxExpDigits THEN MaxAbsExp ELSE DigitsValue(eds)
        ev == IF SignOf(expo) = "-" THEN 0 - eabs ELSE eabs
        all == StripLeadingZeros(RunDigitSeq(ipart) \o RunDigitSeq(fpart))
        ds == StripTrailingZeros(all)
        few == Len(all) <= MaxDigits /\ RunDigits(fpart) <= MaxDigits
    IN  IF ~(mant_ok /\ exp_ok /\ few) THEN [ok |-> FALSE, v |-> VNone]
        ELSE [ok |-> TRUE,
              v |-> Rounded(SignOf(token) = "-", ds,
                            ev - RunDigits(fpart) + (Len(all) - Len(ds)))]

\* float(token) for a token without inf / nan: not ok when it raises
PyFloat(token) == FloatOf(NumStrip(token))

Contains(t, chars) == \E k \in 1..Len(t) : t[k] \in chars

\* A scalar parser that tries the numbers before the reserved words.
parse_scalar_numbers_first(token0) ==
    LET token == Strip(token0) IN
    IF token = <<>> THEN VStr(<<>>)
    ELSE IF StartsWith(token, <<"0", "x">>) \/ StartsWith(token, <<"-", "0", "x">>)
         THEN IF PyInt16(token).ok THEN PyInt16(token).v ELSE VStr(token)
    ELSE IF Contains(token, {".", "e", "E"})
         THEN IF PyFloat(token).ok THEN PyFloat(token).v ELSE VStr(token)
    ELSE IF PyInt10(token).ok THEN PyInt10(token).v
    ELSE IF token = <<"t", "r", "u", "e">> THEN VBool(TRUE)
    ELSE IF token = <<"f", "a", "l", "s", "e">> THEN VBool(FALSE)
    ELSE IF token = <<"n", "i", "l">> THEN VNone
    ELSE VStr(token)

\* _parse_scalar
parse_scalar(token0) ==
    LET token == Strip(token0) IN
    IF token = <<>> THEN VStr(<<>>)
    ELSE IF token = <<"t", "r", "u", "e">> THEN VBool(TRUE)
    ELSE IF token = <<"f", "a", "l", "s", "e">> THEN VBool(FALSE)
    ELSE IF token = <<"n", "i", "l">> THEN VNone
    ELSE IF StartsWith(token, <<"0", "x">>) \/ StartsWith(token, <<"-", "0", "x">>)
         THEN IF PyInt16(token).ok THEN PyInt16(token).v ELSE VStr(token)
    ELSE IF Contains(token, {".", "e", "E"})
         THEN IF PyFloat(token).ok THEN PyFloat(token).v ELSE VStr(token)
    ELSE IF PyInt10(token).ok THEN PyInt10(token).v
    ELSE VStr(token)

----------------------------------------------------------------------------
(* Record parser.                                                          *)

\* The while loop of _parse_lua_string at index i: <<the decoded text, the
\* index past the string>>.
RECURSIVE lua_string_loop(_, _, _)
lua_string_loop(t, i0, out0) ==
    LET i == FirstIdx(t, i0, QuoteOrBackslash, TRUE)
        out_chars == out0 \o Slice(t, i0, i)
    IN
    IF i >= Len(t) THEN <<out_chars, i>>
    ELSE IF At(t, i) = "\\" /\ i + 1 < Len(t) THEN
         LET nxt == At(t, i + 1)
             dec == IF nxt = "n" THEN "\n"
                    ELSE IF nxt = "r" THEN "\r"
                    ELSE IF nxt = "t" THEN "\t"
                    ELSE nxt
         IN  lua_string_loop(t, i + 2, Append(out_chars, dec))
    ELSE IF At(t, i) = "\"" THEN <<out_chars, i + 1>>
    ELSE lua_string_loop(t, i + 1, Append(out_chars, At(t, i)))

\* _parse_lua_string
parse_lua_string(t, i) == lua_string_loop(t, i + 1, <<>>)

\* A dict is the sequence of its items in insertion order.
DictKeys(d) == {d[k].key : k \in 1..Len(d)}
DictHas(d, key) == key \in DictKeys(d)
DictGet(d, key) == d[CHOOSE k \in 1..Len(d) : d[k].key = key].val
\* d[key] = value
DictSet(d, key, value) ==
    IF DictHas(d, key)
    THEN [k \in 1..Len(d) |->
            IF d[k].key = key THEN [key |-> key, val |-> value] ELSE d[k]]
    ELSE Append(d, [key |-> key, val |-> value])

\* the end of a bare token that starts at k: the next comma, line break or '}'
TokenStop == {",", "\n", "\r"} \cup {"}"}
token_end(s, k) == FirstIdx(s, k, TokenStop, TRUE)

\* while j < len(s) and s[j].isspace(): j += 1
skip_spaces(s, j) == FirstIdx(s, j, Spaces, FALSE)

\* The while loop of _parse_row_table over s, at index i, with the row so far.
RECURSIVE row_table_loop(_, _, _)
row_table_loop(s, i, row) ==
    IF i >= Len(s) THEN Ok(row)
    ELSE
    LET key_start == Find(s, <<"[", "\"">>, i) IN
    IF key_start = -1 THEN Ok(row)
    ELSE
    LET key_end == Find(s, <<"\"", "]">>, key_start + 2) IN
    IF key_end = -1 THEN Ok(row)
    ELSE
    LET key == Slice(s, key_start + 2, key_end)
        eq_pos == Find(s, <<"=">>, key_end + 2)
    IN
    IF eq_pos = -1 THEN Ok(row)
    ELSE
    LET j == skip_spaces(s, eq_pos + 1) IN
    IF j >= Len(s) THEN Ok(row)
    ELSE IF At(s, j) = "\"" THEN
         LET r == parse_lua_string(s, j)
         IN  row_table_loop(s, r[2], DictSet(row, key, VStr(r[1])))
    ELSE IF At(s, j) = "{" THEN
         LET raw == extract_balanced_braces(s, j)
         IN  IF raw.exc # NoExc THEN raw
             ELSE row_table_loop(s, j + Len(raw.val),
                                 DictSet(row, key, VStr(raw.val)))
    ELSE LET k == token_end(s, j)
         IN  row_table_loop(s, k, DictSet(row, key, parse_scalar(Slice(s, j, k))))

\* _parse_row_table
parse_row_table(row_table) ==
    LET s == Strip(row_table) IN
    IF ~(StartsWith(s, <<"{">>) /\ EndsWith(s, <<"}">>))
    THEN Raise(ErrRowTable)
    ELSE row_table_loop(Slice(s, 1, Len(s) - 1), 0, <<>>)

----------------------------------------------------------------------------
(* Column ordering.                                                        *)

\* A name as a text: Name("abc") is not expressible, so names are written
\* out; these are the names of the preferred list.
N_index == <<"i", "n", "d", "e", "x">>
N_name == <<"n", "a", "m", "e">>
N_itemLink == <<"i", "t", "e", "m", "L", "i", "n", "k">>
N_itemId == <<"i", "t", "e", "m", "I", "d">>
N_count == <<"c", "o", "u", "n", "t">>
N_quality == <<"q", "u", "a", "l", "i", "t", "y">>
N_timeLeft == <<"t", "i", "m", "e", "L", "e", "f", "t">>
N_minBidCopper == <<"m", "i", "n", "B", "i", "d", "C", "o", "p", "p", "e", "r">>
N_buyoutCopper == <<"b", "u", "y", "o", "u", "t", "C", "o", "p", "p", "e", "r">>
N_hasAllInfo == <<"h", "a", "s", "A", "l", "l", "I", "n", "f", "o">>
N_scannedAtUtc == <<"s", "c", "a", "n", "n", "e", "d", "A", "t", "U", "t", "c">>
N_seller == <<"s", "e", "l", "l", "e", "r">>

preferred == <<N_index, N_name, N_itemLink, N_itemId, N_count, N_quality,
               N_timeLeft, N_minBidCopper, N_buyoutCopper, N_hasAllInfo,
               N_scannedAtUtc>>

\* The code points of the characters names are made of, in increasing order
\* (digits, upper case, underscore, lower case: the order of ASCII).
CharOrder == <<"0", "1", "2", "3", "4", "5", "6", "7", "8", "9",
               "A", "B", "C", "D", "E", "F", "G", "H", "I", "J", "K", "L", "M",
               "N", "O", "P", "Q", "R", "S", "T", "U", "V", "W", "X", "Y", "Z",
               "_",
               "a", "b", "c", "d", "e", "f", "g", "h", "i", "j", "k", "l", "m",
               "n", "o", "p", "q", "r", "s", "t", "u", "v", "w", "x", "y", "z">>

Ord(ch) == CHOOSE k \in 1..Len(CharOrder) : CharOrder[k] = ch

\* a < b for two str, as sorted() compares them
RECURSIVE StrLess(_, _)
StrLess(a, b) ==
    IF b = <<>> THEN FALSE
    ELSE IF a = <<>> THEN TRUE
    ELSE IF Head(a) = Head(b) THEN StrLess(Tail(a), Tail(b))
    ELSE Ord(Head(a)) < Ord(Head(b))

\* sorted(xs) for a list of distinct str
RECURSIVE SortedSet(_)
SortedSet(S) ==
    IF S = {} THEN <<>>
    ELSE LET least == CHOOSE x \in S : \A y \in S \ {x} : StrLess(x, y)
         IN  <<least>> \o SortedSet(S \ {least})

InList(x, xs) == \E k \in 1..Len(xs) : xs[k] = x

\* [f for f in xs if keep(f)]
RECURSIVE FilterSeq(_, _)
FilterSeq(xs, keepset) ==
    IF xs = <<>> THEN <<>>
    ELSE IF Head(xs) \in keepset THEN <<Head(xs)>> \o FilterSeq(Tail(xs), keepset)
    ELSE FilterSeq(Tail(xs), keepset)

SeqRange(xs) == {xs[k] : k \in 1..Len(xs)}

\* A column ordering that leaves the remaining names in the order given.
preferred_field_order_unsorted(fields) ==
    FilterSeq(preferred, SeqRange(fields))
        \o FilterSeq(fields, SeqRange(fields) \ SeqRange(preferred))

\* _preferred_field_order (fields holds no name twice: it is list(a set))
preferred_field_order(fields) ==
    LET remaining == FilterSeq(fields, SeqRange(fields) \ SeqRange(preferred))
    IN  FilterSeq(preferred, SeqRange(fields)) \o SortedSet(SeqRange(remaining))

----------------------------------------------------------------------------
(* Row emitter: what csv.DictWriter writes for a value.                    *)

\* the characters of digits
DigitChars(ds) == [k \in 1..Len(ds) |-> DecDigits[ds[k] + 1]]

NatStr(n) == DigitChars(NatDigits(n))

\* str(n) of an int
IntStr(v) == (IF v.neg THEN <<"-">> ELSE <<>>) \o DigitChars(v.digits)

Zeros(k) == [j \in 1..k |-> "0"]

\* repr(x) of a float: the shortest digits, in fixed notation when the
\* scientific exponent is in -4..15 and in exponent notation otherwise
FloatStr(v) ==
    LET sign == IF v.neg THEN <<"-">> ELSE <<>>
        d == DigitChars(v.digits)
        n == Len(d)
        x == SciExp(v)
        fixed == IF x >= n - 1 THEN d \o Zeros(x - (n - 1)) \o <<".", "0">>
                 ELSE IF x >= 0 THEN SubSeq(d, 1, x + 1) \o <<".">> \o SubSeq(d, x + 2, n)
                 ELSE <<"0", ".">> \o Zeros(0 - x - 1) \o d
        ax == IF x < 0 THEN 0 - x ELSE x
        expo == <<"e", IF x < 0 THEN "-" ELSE "+">>
                    \o (IF ax < 10 THEN <<"0">> ELSE <<>>) \o NatStr(ax)
        sci == <<d[1]>> \o (IF n > 1 THEN <<".">> \o SubSeq(d, 2, n) ELSE <<>>) \o expo
    IN  IF v.inf THEN sign \o <<"i", "n", "f">>
        ELSE IF v.digits = <<0>> THEN sign \o <<"0", ".", "0">>
        ELSE IF x < -4 \/ x >= 16 THEN sign \o sci
        ELSE sign \o fixed

\* str(v) raises ValueError for an int of more digits than the limit
StrRaises(v) == v.tag = "int" /\ Len(v.digits) > MaxStrDigits

\* The text of the cell written for a value: "" for None (line 297), a str
\* as it is, and str() of anything else (where str() does not raise)
CellText(v) ==
    IF v.tag = "None" THEN <<>>
    ELSE IF v.tag = "str" THEN v.s
    ELSE IF v.tag = "bool" THEN
         (IF v.b THEN <<"T", "r", "u", "e">> ELSE <<"F", "a", "l", "s", "e">>)
    ELSE IF v.tag = "int" THEN IntStr(v)
    ELSE FloatStr(v)

\* r = {k: v for k, v in r.items() if k != "seller"}
RECURSIVE WithoutSeller(_)
WithoutSeller(r) ==
    IF r = <<>> THEN <<>>
    ELSE IF Head(r).key = N_seller THEN WithoutSeller(Tail(r))
    ELSE <<Head(r)>> \o WithoutSeller(Tail(r))

\* writer.writerow for one row (lines 296-297): the cell of every column of
\* fieldnames, "" where the row has no such field (extrasaction="ignore")
row_cells(fields, r) ==
    LET d == WithoutSeller(r) IN
    [c \in 1..Len(fields) |->
        IF DictHas(d, fields[c]) THEN CellText(DictGet(d, fields[c])) ELSE <<>>]

\* writer.writerow raises for the row: str() of one of its cells does
row_raises(fields, r) ==
    LET d == WithoutSeller(r) IN
    \E c \in 1..Len(fields) :
        DictHas(d, fields[c]) /\ StrRaises(DictGet(d, fields[c]))

\* The output file: not opened, or the records written to it so far (the
\* header first).
Unopened == [opened |-> FALSE, lines |-> <<>>]
Opened(lines) == [opened |-> TRUE, lines |-> lines]

----------------------------------------------------------------------------
(* convert.                                                                *)

\* rows = [_parse_row_table(rt) for rt in row_tables]
RECURSIVE parse_rows(_, _)
parse_rows(tables, acc) ==
    IF tables = <<>> THEN Ok(acc)
    ELSE LET r == parse_row_table(Head(tables)) IN
         IF r.exc # NoExc THEN r
         ELSE parse_rows(Tail(tables), Append(acc, r.val))

\* lines 275-280 of convert: the rows, or the exception raised
convert_rows(t) ==
    LET block == find_rows_block(t) IN
    IF block.exc # NoExc THEN block
    ELSE LET tables == extract_row_tables(block.val) IN
         IF tables.exc # NoExc THEN tables
         ELSE LET parsed == parse_rows(tables.val, <<>>) IN
              IF parsed.exc # NoExc THEN parsed
              ELSE IF parsed.val = <<>> THEN Raise(ErrZeroRows)
              ELSE parsed

\* A field set that keeps the seller.
fieldnames_set_keeping_seller(rs) == UNION {DictKeys(rs[k]) : k \in 1..Len(rs)}

\* lines 282-287: the union of the rows' keys, without "seller"
fieldnames_set(rs) == UNION {DictKeys(rs[k]) : k \in 1..Len(rs)} \ {N_seller}

\* list(a set): the elements in any order
RECURSIVE Lists(_)
Lists(S) ==
    IF S = {} THEN {<<>>}
    ELSE UNION {{<<x>> \o l : l \in Lists(S \ {x})} : x \in S}

\* lines 292-297: the file written for the rows, which ends before the
\* first row whose writing raises
written_file(fields, rs) ==
    LET bad == {k \in 1..Len(rs) : row_raises(fields, rs[k])}
        n == IF bad = {} THEN Len(rs)
             ELSE (CHOOSE k \in bad : \A j \in bad : k <= j) - 1
    IN  Opened(<<fields>> \o [k \in 1..n |-> row_cells(fields, rs[k])])

----------------------------------------------------------------------------
(* The documents convert is run on.  A document is rendered from records,  *)
(* a record from members; for each member the library states the literal   *)
(* written in the file, the value Lua holds for it and the cell a CSV of   *)
(* that value shows.                                                       *)

Mem(key, lit, val, cell) == [key |-> key, lit |-> lit, val |-> val, cell |-> cell]

N_a == <<"a">>
N_z == <<"z">>
N_B == <<"B">>

L_Ore ==
    <<"\"", "O", "r", "e", "\"">>
L_braces ==
    <<"\"", "a", "}", "b", ",", "{", "\"">>
L_Bob ==
    <<"\"", "B", "o", "b", "\"">>
L_nested ==
    <<"{", "1", ",", "{", "2", "}", "}">>
L_quote ==
    <<"\"", "x", "\\", "\"", "y", "\"">>

RecOreIndex == <<Mem(N_index, <<"1">>, VInt(1), <<"1">>),
                 Mem(N_name, L_Ore, VStr(<<"O", "r", "e">>), <<"O", "r", "e">>)>>
RecFlagIndex == <<Mem(N_z, <<"t", "r", "u", "e">>, VBool(TRUE), <<"T", "r", "u", "e">>),
                  Mem(N_index, <<"2">>, VInt(2), <<"2">>)>>
RecBraces == <<Mem(N_name, L_braces, VStr(<<"a", "}", "b", ",", "{">>),
                   <<"a", "}", "b", ",", "{">>),
               Mem(N_a, <<"n", "i", "l">>, VNone, <<>>)>>
RecSellerHex == <<Mem(N_seller, L_Bob, VStr(<<"B", "o", "b">>), <<"B", "o", "b">>),
                  Mem(N_index, <<"0", "x", "1", "F">>, VInt(31), <<"3", "1">>)>>
RecNested == <<Mem(N_z, L_nested, VStr(L_nested), L_nested),
               Mem(N_a, <<"3", ".", "5">>, VFloat(FALSE, 35, -1), <<"3", ".", "5">>)>>
RecSellerOnly == <<Mem(N_seller, L_Bob, VStr(<<"B", "o", "b">>), <<"B", "o", "b">>)>>
RecEmpty == <<>>
RecTwice == <<Mem(N_a, <<"1">>, VInt(1), <<"1">>),
              Mem(N_a, <<"2">>, VInt(2), <<"2">>)>>
RecUpper == <<Mem(N_B, <<"-", "7">>, VInt(-7), <<"-", "7">>),
              Mem(N_a, L_quote, VStr(<<"x", "\"", "y">>), <<"x", "\"", "y">>)>>

Records == {RecOreIndex, RecFlagIndex, RecBraces, RecSellerHex, RecNested,
            RecSellerOnly, RecEmpty, RecTwice, RecUpper}

\* the most records a generated document holds
MaxRecords == 2

RecordLists == UNION {[1..n -> Records] : n \in 1..MaxRecords}

\* ["key"] = literal
RenderMember(m) ==
    <<"[", "\"">> \o m.key \o <<"\"", "]", " ", "=", " ">> \o m.lit

RECURSIVE RenderMembers(_)
RenderMembers(ms) ==
    IF ms = <<>> THEN <<>>
    ELSE RenderMember(Head(ms)) \o <<",", "\n">> \o RenderMembers(Tail(ms))

RenderRecord(rec) == <<"{", "\n">> \o RenderMembers(rec) \o <<"}">>

RECURSIVE RenderRecords(_)
RenderRecords(recs) ==
    IF recs = <<>> THEN <<>>
    ELSE RenderRecord(Head(recs)) \o <<",", " ", "-", "-", "\n">>
            \o RenderRecords(Tail(recs))

\* D = { ["rows"] = { {...}, -- {...}, -- } }
RenderDoc(recs) ==
    <<"D", " ", "=", " ", "{", "\n">> \o RowsKey \o <<" ", "=", " ", "{", "\n">>
        \o RenderRecords(recs) \o <<"}", ",", "\n", "}", "\n">>

DocEmptyText ==
    <<>>
DocNoKey ==
    <<"D", " ", "=", " ", "{", " ", "[", "\"", "r", "o", "w", "\"", "]", " ",
     "=", " ", "{", "{", "}", "}", " ", "}">>
DocNoBrace ==
    <<"D", " ", "=", " ", "{", " ", "[", "\"", "r", "o", "w", "s", "\"", "]",
     " ", "=", " ", "n", "i", "l">>
DocUnbalanced ==
    <<"[", "\"", "r", "o", "w", "s", "\"", "]", " ", "=", " ", "{", "{", "[",
     "\"", "a", "\"", "]", " ", "=", " ", "1", "}">>
DocEmptyArray ==
    <<"[", "\"", "r", "o", "w", "s", "\"", "]", " ", "=", " ", "{", "}">>
DocStrays ==
    <<"[", "\"", "r", "o", "w", "s", "\"", "]", " ", "=", " ", "{", " ",
     "\"", "{", "}", "\"", ",", " ", "1", " ", "}">>
DocBadRecord ==
    <<"[", "\"", "r", "o", "w", "s", "\"", "]", "=", "{", "{", "[", "\"",
      "a", "\"", "]", "=", "1", "}", ",", "{", "[", "\"", "a", "\"", "]",
      "=", "1", ",", "\"", "[", "\"", "b", "\"", "]", "=", "{", "\"", "}",
      "}">>
DocTruncated ==
    <<"[", "\"", "r", "o", "w", "s", "\"", "]", " ", "=", " ", "{", "{", "[",
     "\"", "a", "\"", "]", " ", "=", " ", "\"", "x">>

\* documents that are no array of records
OtherDocs == {DocEmptyText, DocNoKey, DocNoBrace, DocUnbalanced, DocEmptyArray,
              DocStrays, DocBadRecord, DocTruncated}

Docs == {RenderDoc(recs) : recs \in RecordLists} \cup OtherDocs

----------------------------------------------------------------------------
(* convert, step by step.                                                  *)

NoReturn == [exc |-> NoExc, n |-> -1]
Returned(n) == [exc |-> NoExc, n |-> n]
Raised(msg) == [exc |-> msg, n |-> -1]

ScanIdle == fn = "" /\ arg = <<>> /\ ret = <<>>
MainIdle ==
    /\ mpc = "" /\ input_paths = <<>> /\ fs = <<>> /\ idx = 0
    /\ converted = 0 /\ skipped = 0 /\ failed = 0 /\ log = <<>> /\ exitcode = -1
ConvIdle ==
    /\ cpc = "" /\ text = <<>> /\ rows_block = <<>> /\ row_tables = <<>>
    /\ rows = <<>> /\ fieldnames = <<>> /\ csvfile = Unopened /\ cret = NoReturn

\* lines 272-273: the text has been read, nothing else has happened
InitConvert ==
    /\ ScanIdle /\ MainIdle
    /\ cpc = "read"
    /\ text \in Docs
    /\ rows_block = <<>>
    /\ row_tables = <<>>
    /\ rows = <<>>
    /\ fieldnames = <<>>
    /\ csvfile = Unopened
    /\ cret = NoReturn

\* A convert that opens the output before it looks at the text.
ConvLocateOpeningFirst ==
    /\ cpc = "read"
    /\ LET r == find_rows_block(text) IN
       IF r.exc # NoExc
       THEN /\ cpc' = "raised"
            /\ cret' = Raised(r.exc)
            /\ UNCHANGED rows_block
       ELSE /\ cpc' = "split"
            /\ rows_block' = r.val
            /\ UNCHANGED cret
    /\ csvfile' = Opened(<<>>)
    /\ UNCHANGED <<text, row_tables, rows, fieldnames>>
    /\ UNCHANGED <<scanvars, mainvars>>

\* line 275
ConvLocate ==
    /\ cpc = "read"
    /\ LET r == find_rows_block(text) IN
       IF r.exc # NoExc
       THEN /\ cpc' = "raised"
            /\ cret' = Raised(r.exc)
            /\ UNCHANGED rows_block
       ELSE /\ cpc' = "split"
            /\ rows_block' = r.val
            /\ UNCHANGED cret
    /\ UNCHANGED <<text, row_tables, rows, fieldnames, csvfile>>
    /\ UNCHANGED <<scanvars, mainvars>>

\* line 276
ConvSplit ==
    /\ cpc = "split"
    /\ LET r == extract_row_tables(rows_block) IN
       IF r.exc # NoExc
       THEN /\ cpc' = "raised"
            /\ cret' = Raised(r.exc)
            /\ UNCHANGED row_tables
       ELSE /\ cpc' = "parse"
            /\ row_tables' = r.val
            /\ UNCHANGED cret
    /\ UNCHANGED <<text, rows_block, rows, fieldnames, csvfile>>
    /\ UNCHANGED <<scanvars, mainvars>>

\* line 278, one element of the list comprehension
ConvParseRow ==
    /\ cpc = "parse"
    /\ Len(rows) < Len(row_tables)
    /\ LET r == parse_row_table(row_tables[Len(rows) + 1]) IN
       IF r.exc # NoExc
       THEN /\ cpc' = "raised"
            /\ cret' = Raised(r.exc)
            /\ UNCHANGED rows
       ELSE /\ rows' = Append(rows, r.val)
            /\ UNCHANGED <<cpc, cret>>
    /\ UNCHANGED <<text, rows_block, row_tables, fieldnames, csvfile>>
    /\ UNCHANGED <<scanvars, mainvars>>

\* lines 279-280
ConvCheckRows ==
    /\ cpc = "parse"
    /\ Len(rows) = Len(row_tables)
    /\ IF rows = <<>>
       THEN /\ cpc' = "raised"
            /\ cret' = Raised(ErrZeroRows)
       ELSE /\ cpc' = "fields"
            /\ UNCHANGED cret
    /\ UNCHANGED <<text, rows_block, row_tables, rows, fieldnames, csvfile>>
    /\ UNCHANGED <<scanvars, mainvars>>

\* lines 282-289; list(fieldnames_set) is the set in any order
ConvFields ==
    /\ cpc = "fields"
    /\ \E fields \in Lists(fieldnames_set(rows)) :
          fieldnames' = preferred_field_order(fields)
    /\ cpc' = "open"
    /\ UNCHANGED <<text, rows_block, row_tables, rows, csvfile, cret>>
    /\ UNCHANGED <<scanvars, mainvars>>

\* line 292: open(output_csv_path, "w") creates or truncates the file
ConvOpen ==
    /\ cpc = "open"
    /\ csvfile' = Opened(<<>>)
    /\ cpc' = "header"
    /\ UNCHANGED <<text, rows_block, row_tables, rows, fieldnames, cret>>
    /\ UNCHANGED <<scanvars, mainvars>>

\* lines 293-294
ConvWriteHeader ==
    /\ cpc = "header"
    /\ csvfile' = Opened(<<fieldnames>>)
    /\ cpc' = "write"
    /\ UNCHANGED <<text, rows_block, row_tables, rows, fieldnames, cret>>
    /\ UNCHANGED <<scanvars, mainvars>>

\* lines 295-297, one row: written whole, or not at all when str() of one
\* of its cells raises, which ends convert with the file as it is
ConvWriteRow ==
    /\ cpc = "write"
    /\ Len(csvfile.lines) - 1 < Len(rows)
    /\ IF row_raises(fieldnames, rows[Len(csvfile.lines)])
       THEN /\ cret' = Raised(ErrStrDigits)
            /\ cpc' = "raised"
            /\ UNCHANGED csvfile
       ELSE /\ csvfile' = Opened(Append(csvfile.lines,
                                 row_cells(fieldnames, rows[Len(csvfile.lines)])))
            /\ UNCHANGED <<cpc, cret>>
    /\ UNCHANGED <<text, rows_block, row_tables, rows, fieldnames>>
    /\ UNCHANGED <<scanvars, mainvars>>

\* line 299
ConvReturn ==
    /\ cpc = "write"
    /\ Len(csvfile.lines) - 1 = Len(rows)
    /\ cret' = Returned(Len(rows))
    /\ cpc' = "returned"
    /\ UNCHANGED <<text, rows_block, row_tables, rows, fieldnames, csvfile>>
    /\ UNCHANGED <<scanvars, mainvars>>

NextConvert ==
    \/ ConvLocate
    \/ ConvSplit
    \/ ConvParseRow
    \/ ConvCheckRows
    \/ ConvFields
    \/ ConvOpen
    \/ ConvWriteHeader
    \/ ConvWriteRow
    \/ ConvReturn

\* one call of convert on one document
Spec == InitConvert /\ [][NextConvert]_vars

----------------------------------------------------------------------------
(* What the claims say, stated without the scanner's loops.                *)

\* Reading a text, a character is read outside quoted strings ("code"),
\* inside one ("str") or as the character a backslash escapes ("esc").
\* The state after a character read in state q:
StepMode(q, ch) ==
    IF q = "code" THEN IF ch = "\"" THEN "str" ELSE "code"
    ELSE IF q = "esc" THEN "str"
    ELSE IF ch = "\\" THEN "esc"
    ELSE IF ch = "\"" THEN "code"
    ELSE "str"

Modes == {"code", "str", "esc"}

\* the state after text[a:b] read from state q (by halves, the first half
\* evaluated before the second is entered)
RECURSIVE ModeAfter(_, _, _, _)
ModeAfter(t, a, b, q) ==
    IF b <= a THEN q
    ELSE IF b = a + 1 THEN StepMode(q, At(t, a))
    ELSE LET mid == (a + b) \div 2
             half == ModeAfter(t, a, mid, q)
         IN  IF half \in Modes THEN ModeAfter(t, mid, b, half) ELSE half

\* The lexical mode of text[k] when the text is read from index start: "code"
\* outside quoted strings (the quotes themselves belong to the string:
\* "open", "close"), "str" inside one, "esc" for an escaped character.
ModeAt(t, start, k) ==
    LET q == ModeAfter(t, start, k, "code") IN
    IF q = "code" THEN IF At(t, k) = "\"" THEN "open" ELSE "code"
    ELSE IF q = "esc" THEN "esc"
    ELSE IF At(t, k) = "\"" THEN "close"
    ELSE "str"

\* the characters of text[start:] that are outside quoted strings
Outside(t, start) == {k \in start..(Len(t) - 1) : ModeAt(t, start, k) = "code"}

Count(t, S, ch) == Cardinality({k \in S : At(t, k) = ch})

\* the brace depth after text[k], counted over the characters outside strings
DepthAfter(t, start, k) ==
    LET seen == {j \in Outside(t, start) : j <= k}
    IN  Count(t, seen, "{") - Count(t, seen, "}")

\* the closing braces at which the depth is back to zero
Closers(t, start) ==
    {k \in Outside(t, start) : At(t, k) = "}" /\ DepthAfter(t, start, k) = 0}

Final == {"raised", "returned"}

\* the cell a record of the library shows in the column f: that of its last
\* member named f, nothing when it has none
LibCell(rec, f) ==
    LET at == {k \in 1..Len(rec) : rec[k].key = f}
    IN  IF at = {} THEN <<>>
        ELSE rec[CHOOSE k \in at : \A j \in at : j <= k].cell

\* C1: for a text whose ["rows"] array holds N >= 1 records, convert returns
\* N and writes N data rows, the k-th showing the k-th record, and the header
\* is not empty.
C1_RowsInOrder ==
    cpc \in Final =>
        \A recs \in RecordLists :
            text = RenderDoc(recs) =>
                /\ cpc = "returned"
                /\ cret = Returned(Len(recs))
                /\ Len(csvfile.lines) = Len(recs) + 1
                /\ csvfile.lines[1] = fieldnames
                /\ \A k \in 1..Len(recs) :
                      csvfile.lines[k + 1] =
                          [c \in 1..Len(fieldnames) |-> LibCell(recs[k], fieldnames[c])]
                /\ fieldnames # <<>>

\* C2: a conversion is all-or-nothing: when locating the array, splitting
\* it, parsing a record or the zero-record check fails, the output has not
\* been opened; the output is opened only once every record is parsed.
C2_AllOrNothing ==
    /\ convert_rows(text).exc # NoExc => csvfile = Unopened
    /\ cpc = "raised" =>
          /\ cret.exc # NoExc
          /\ cret.exc # ErrStrDigits => csvfile = Unopened
    /\ csvfile.opened =>
          /\ convert_rows(text).exc = NoExc
          /\ rows = convert_rows(text).val
          /\ Len(rows) = Len(row_tables)

C2_Witness ==
    /\ cpc = "raised"
    /\ text = DocBadRecord
    /\ Len(rows) = 1
    /\ cret = Raised(ErrUnbalanced)
    /\ csvfile = Unopened

HasRowsKey(t) == \E i \in 0..Len(t) : StartsWithAt(t, RowsKey, i)

BraceAfterKey(t) ==
    \E i \in 0..Len(t) :
        /\ StartsWithAt(t, RowsKey, i)
        /\ \A j \in 0..(i - 1) : ~StartsWithAt(t, RowsKey, j)
        /\ \E k \in i..(Len(t) - 1) : At(t, k) = "{"

\* the located array holds an element: an opening brace outside its strings
HasElement(block) == \E k \in Outside(block, 1) : k < Len(block) - 1 /\ At(block, k) = "{"

\* C4: a document without ["rows"] fails with KeyNotFound; one with the
\* marker but no '{' after it with StructureNotFound; one whose located
\* array holds no brace-delimited element with NoRecordsParsed.
C4_FailureByShape ==
    cpc \in Final =>
        /\ ~HasRowsKey(text) => cret = Raised(ErrNoRowsKey)
        /\ HasRowsKey(text) /\ ~BraceAfterKey(text) => cret = Raised(ErrNoBrace)
        /\ rows_block # <<>> /\ ~HasElement(rows_block) => cret = Raised(ErrZeroRows)

C4_Witness ==
    /\ cpc = "raised"
    /\ text = DocStrays
    /\ rows_block # <<>>
    /\ ~HasElement(rows_block)
    /\ cret = Raised(ErrZeroRows)

NoDuplicates(xs) == \A i, j \in 1..Len(xs) : xs[i] = xs[j] => i = j

\* C8: the schema holds no column twice and never the seller, and no row
\* written carries the seller's value (in the library, Bob).
C8_NoSellerNoDuplicates ==
    /\ NoDuplicates(fieldnames)
    /\ ~InList(N_seller, fieldnames)
    /\ \A k \in 1..Len(csvfile.lines) :
          /\ Len(csvfile.lines[k]) = Len(fieldnames)
          /\ ~InList(<<"B", "o", "b">>, csvfile.lines[k])
          /\ ~InList(N_seller, csvfile.lines[k])

C8_Witness ==
    /\ cpc = "returned"
    /\ text = RenderDoc(<<RecSellerHex, RecSellerHex>>)
    /\ \A k \in 1..Len(rows) : DictHas(rows[k], N_seller)
    /\ csvfile.lines = <<<<N_index>>, <<<<"3", "1">>>>, <<<<"3", "1">>>>>>

PrefIndex(f) == CHOOSE k \in 1..Len(preferred) : preferred[k] = f

\* the preferred names first, in the preferred order, then the others in
\* lexicographic order
PreferredThenSorted(xs) ==
    \A i, j \in 1..Len(xs) :
        i < j =>
            IF InList(xs[i], preferred)
            THEN InList(xs[j], preferred) => PrefIndex(xs[i]) < PrefIndex(xs[j])
            ELSE ~InList(xs[j], preferred) /\ StrLess(xs[i], xs[j])

RowNames == UNION {DictKeys(rows[k]) : k \in 1..Len(rows)} \ {N_seller}

\* C9: the schema is the preferred names that occur, in the preferred order,
\* then the other names sorted; it is the one such list of the set of names,
\* whatever the order of the records; {z, index, name, a} gives
\* [index, name, a, z].
C9_SchemaOrder ==
    cpc \in {"open", "header", "write", "returned"} =>
        /\ SeqRange(fieldnames) = RowNames
        /\ Len(fieldnames) = Cardinality(RowNames)
        /\ PreferredThenSorted(fieldnames)
        /\ \A l \in Lists(RowNames) : PreferredThenSorted(l) => l = fieldnames
        /\ RowNames = {N_z, N_index, N_name, N_a}
              => fieldnames = <<N_index, N_name, N_a, N_z>>

C9_Witness ==
    /\ cpc = "returned"
    /\ text = RenderDoc(<<RecFlagIndex, RecBraces>>)
    /\ RowNames = {N_z, N_index, N_name, N_a}
    /\ fieldnames = <<N_index, N_name, N_a, N_z>>

\* C10: when there are records but the schema is empty, the conversion
\* fails rather than returning with an empty header.
C10_EmptySchemaFails ==
    cpc \in Final /\ rows # <<>> /\ Len(rows) = Len(row_tables) /\ RowNames = {}
        => cpc = "raised" /\ csvfile = Unopened

----------------------------------------------------------------------------
(* _extract_balanced_braces on every short text.                           *)

ScanChars == {"{", "}", "\"", "\\", "a"}

\* the longest text scanned
MaxScanLen == 5

ScanTexts == UNION {[1..n -> ScanChars] : n \in 0..MaxScanLen}

InitScan ==
    /\ ConvIdle /\ MainIdle
    /\ fn = "extract_balanced"
    /\ arg \in [text : ScanTexts, start : -1..MaxScanLen]
    /\ arg.start <= Len(arg.text)
    /\ ret = <<>>

\* one call of _extract_balanced_braces(text, start)
ApplyExtract ==
    /\ fn = "extract_balanced"
    /\ ret' = extract_balanced_braces(arg.text, arg.start)
    /\ fn' = "extracted"
    /\ UNCHANGED <<arg, convvars, mainvars>>

NextScan == ApplyExtract

SpecScan == InitScan /\ [][NextScan]_vars

Least(S) == CHOOSE k \in S : \A j \in S : k <= j

\* C5: when text[start] is '{', extract_balanced returns the text from start
\* through the first '}' at which the depth, counted outside quoted strings
\* only, is back to zero, and fails with UnbalancedStructure when there is
\* no such '}'.
C5_BalancedSpan ==
    (fn = "extracted" /\ 0 <= arg.start /\ arg.start < Len(arg.text)
        /\ At(arg.text, IF arg.start < 0 THEN 0 ELSE arg.start) = "{")
    => IF Closers(arg.text, arg.start) = {}
       THEN ret = Raise(ErrUnbalanced)
       ELSE ret = Ok(Slice(arg.text, arg.start,
                           Least(Closers(arg.text, arg.start)) + 1))

C5_Witness ==
    /\ fn = "extracted"
    /\ arg = [text |-> <<"{", "\"", "}", "\"", "}">>, start |-> 0]
    /\ ret = Ok(<<"{", "\"", "}", "\"", "}">>)

----------------------------------------------------------------------------
(* _parse_scalar on every short token, and the cell written for the value. *)

\* "U+0661" is the digit one of ARABIC-INDIC, "U+3000" the IDEOGRAPHIC SPACE
TokChars == {"0", "1", "x", "F", "-", ".", "e", " ", "U+0661", "U+3000"}

\* the longest token made of TokChars
MaxTokLen == 4

T_true == <<"t", "r", "u", "e">>
T_false == <<"f", "a", "l", "s", "e">>
T_nil == <<"n", "i", "l">>
T_123 == <<"1", "2", "3">>
T_hex == <<"-", "0", "x", "1", "F">>
T_pi == <<"3", ".", "1", "4">>
T_hello == <<"h", "e", "l", "l", "o">>

Literals == {T_true, T_false, T_nil, T_123, T_hex, T_pi, T_hello}

Tokens == UNION {[1..n -> TokChars] : n \in 0..MaxTokLen} \cup Literals

InitScalar ==
    /\ ConvIdle /\ MainIdle
    /\ fn = "parse_scalar"
    /\ arg \in Tokens
    /\ ret = <<>>

\* line 243: value = _parse_scalar(token)
ApplyScalar ==
    /\ fn = "parse_scalar"
    /\ ret' = [value |-> parse_scalar(arg), cell |-> <<>>]
    /\ fn' = "parsed"
    /\ UNCHANGED <<arg, convvars, mainvars>>

\* line 297: the value is written as a cell
EmitCell ==
    /\ fn = "parsed"
    /\ ret' = [value |-> ret.value, cell |-> CellText(ret.value)]
    /\ fn' = "emitted"
    /\ UNCHANGED <<arg, convvars, mainvars>>

NextScalar ==
    \/ ApplyScalar
    \/ EmitCell

SpecScalar == InitScalar /\ [][NextScalar]_vars

LiteralValue(t) ==
    IF t = T_true THEN VBool(TRUE)
    ELSE IF t = T_false THEN VBool(FALSE)
    ELSE IF t = T_nil THEN VNone
    ELSE IF t = T_123 THEN VInt(123)
    ELSE IF t = T_hex THEN VInt(-31)
    ELSE IF t = T_pi THEN VFloat(FALSE, 314, -2)
    ELSE VStr(T_hello)

\* C6, as the spec states it: the seven literals are written as true,
\* false, nothing, 123, 31, 3.14 and hello.
C6_AsStated ==
    fn = "emitted" /\ arg \in Literals =>
        /\ ret.value = LiteralValue(arg)
        /\ ret.cell = IF arg = T_nil THEN <<>>
                      ELSE IF arg = T_hex THEN <<"3", "1">>
                      ELSE arg

HexPrefix(tok) == StartsWith(tok, <<"0", "x">>) \/ StartsWith(tok, <<"-", "0", "x">>)
FloatMark(tok) == Contains(tok, {".", "e", "E"})

\* C7: the trimmed token is classified by the first rule that applies:
\* true / false, nil, empty, a 0x or -0x prefix (base 16), a '.', 'e' or
\* 'E' (float), otherwise base 10; when the number selected cannot be read
\* the result is the token as Text, so there is always a result.
C7_RuleOrder ==
    fn \in {"parsed", "emitted"} =>
        LET tok == Strip(arg)
            v == ret.value
            word == tok \in {T_true, T_false, T_nil, <<>>}
        IN  /\ v.tag \in {"bool", "None", "str", "int", "float"}
            /\ (v.tag = "bool") = (tok \in {T_true, T_false})
            /\ v.tag = "bool" => v.b = (tok = T_true)
            /\ (v.tag = "None") = (tok = T_nil)
            /\ tok = <<>> => v = VStr(<<>>)
            /\ v.tag = "str" => v.s = tok
            /\ ~word /\ HexPrefix(tok) =>
                  v = IF PyInt16(tok).ok THEN PyInt16(tok).v ELSE VStr(tok)
            /\ ~word /\ ~HexPrefix(tok) /\ FloatMark(tok) =>
                  v = IF PyFloat(tok).ok THEN PyFloat(tok).v ELSE VStr(tok)
            /\ ~word /\ ~HexPrefix(tok) /\ ~FloatMark(tok) =>
                  v = IF PyInt10(tok).ok THEN PyInt10(tok).v ELSE VStr(tok)

C7_Witness ==
    /\ fn = "parsed"
    /\ arg = <<" ", "0", "x", "e">>
    /\ ret.value = VInt(14)

----------------------------------------------------------------------------
(* The batch loop of main.                                                 *)
(*                                                                         *)
(* A path is a path after os.path.abspath, held as the drive it is on (the *)
(* mount ntpath compares; under posixpath every path is on the one drive)  *)
(* and the name of the file.  The files of a drive lie in one directory.   *)

Path(drive, name) == [drive |-> drive, name |-> name]

\* the drive of base_dir (line 355: os.getcwd()), and another one
BaseDrive == "C"
OtherDrive == "D"

N_a_lua == <<"a", ".", "l", "u", "a">>
N_b_lua == <<"b", ".", "l", "u", "a">>
N_out_csv == <<"o", "u", "t", ".", "c", "s", "v">>
DotRows == <<".", "r", "o", "w", "s">>
DotCsv == <<".", "c", "s", "v">>

PathA == Path(BaseDrive, N_a_lua)
PathB == Path(BaseDrive, N_b_lua)
PathFar == Path(OtherDrive, N_a_lua)
Paths == {PathA, PathB, PathFar}

\* args.output when it is None or "", and the two outputs asked for
NoOutput == Path("", <<>>)
OutNear == Path(BaseDrive, N_out_csv)
OutFar == Path(OtherDrive, N_out_csv)

\* _default_output_csv_path
default_output_csv_path(p) == Path(p.drive, p.name \o DotRows \o DotCsv)

\* entries beside the inputs: a.lua.rows.old.CSV and a.lua.csv
StrayOld == Path(BaseDrive, N_a_lua \o DotRows \o <<".", "o", "l", "d", ".", "C", "S", "V">>)
StrayPlain == Path(BaseDrive, N_a_lua \o DotCsv)

CsvPaths == {default_output_csv_path(p) : p \in Paths}
                \cup {OutNear, OutFar, StrayOld, StrayPlain}

\* the most inputs on the command line
MaxInputs == 3

\* line 57: max_show
MaxShow == 25

MainDocs == {RenderDoc(<<RecOreIndex>>), DocNoKey, DocBadRecord}

\* the content of an input that is no file: no text holds this element
NoFile == <<"">>

\* os.path.relpath(p, base_dir) raises ValueError for a path on another
\* drive than base_dir
relpath_raises(p) == p.drive # BaseDrive

ErrMount == "path is on mount 'D:', start on mount 'C:'"

RECURSIVE TextOf(_)
TextOf(chars) == IF chars = <<>> THEN "" ELSE chars[1] \o TextOf(Tail(chars))

\* the absolute path of line 348 as text: the drive and the name, which are
\* all of a path that is told apart here
abspath(p) == p.drive \o ":" \o TextOf(p.name)

\* str(e) of the FileNotFoundError of line 272: the errno, its text and the
\* file name in quotes
ErrNoFile(p) == "[Errno 2] No such file or directory: '" \o abspath(p) \o "'"

\* name.lower().endswith(".csv"): str.lower() gives ".", "c", "s" or "v" for
\* these characters and their capitals only
IsCsvName(name) ==
    /\ Len(name) >= 4
    /\ name[Len(name) - 3] = "."
    /\ name[Len(name) - 2] \in {"c", "C"}
    /\ name[Len(name) - 1] \in {"s", "S"}
    /\ name[Len(name)] \in {"v", "V"}

\* os.listdir(directory): the inputs and the other files that exist there
listdir(drive) ==
    {p.name : p \in {q \in Paths : q.drive = drive /\ fs.content[q] # NoFile}}
        \cup {e.name : e \in {c \in CsvPaths : c.drive = drive /\ fs.csv[c].opened}}

\* _has_matching_csv
has_matching_csv(p) ==
    \E name \in listdir(p.drive) :
        IsCsvName(name) /\ StartsWith(name, p.name \o DotRows)

\* lines 368-371
output_path(p) ==
    IF arg.output # NoOutput THEN arg.output ELSE default_output_csv_path(p)

\* short lists of inputs of the base drive, and two with an input elsewhere
ShortLists ==
    UNION {[1..n -> {PathA, PathB}] : n \in 0..MaxInputs}
        \cup {<<PathFar>>, <<PathA, PathFar>>}

\* max_show inputs of the base drive and, after them, one of another drive
LongList == [k \in 1..(MaxShow + 1) |-> IF k <= MaxShow THEN PathA ELSE PathFar]

InitMain ==
    /\ ConvIdle
    /\ fn = "main"
    /\ arg \in [output : {NoOutput, OutNear, OutFar}]
    /\ ret = <<>>
    /\ mpc = "start"
    /\ \/ /\ input_paths \in ShortLists
          /\ fs \in [content : [Paths -> MainDocs \cup {NoFile}],
                     csv : [CsvPaths -> {Unopened, Opened(<<>>)}]]
          /\ fs.content[PathFar] = DocNoKey
          /\ \A c \in {OutNear, OutFar, default_output_csv_path(PathFar)} :
                fs.csv[c] = Unopened
       \/ /\ input_paths = LongList
          /\ fs \in [content : [Paths -> {DocNoKey}],
                     csv : [CsvPaths -> {Unopened, Opened(<<>>)}]]
          /\ fs.csv[default_output_csv_path(PathA)] = Opened(<<>>)
          /\ \A c \in CsvPaths \ {default_output_csv_path(PathA),
                                  default_output_csv_path(PathFar)} :
                fs.csv[c] = Unopened
    /\ idx = 0
    /\ converted = 0
    /\ skipped = 0
    /\ failed = 0
    /\ log = <<>>
    /\ exitcode = -1

\* A line of the log, with the iteration that wrote it.
Line(k, p, kind) == [idx |-> k, path |-> p, kind |-> kind]
ErrorLine(k, p, msg) == [idx |-> k, path |-> p, kind |-> "ERROR", exc |-> msg]
WroteLine(k, p, n) == [idx |-> k, path |-> p, kind |-> "Wrote", n |-> n]

\* lines 347-366; the relpath of line 60 (_log_found_inputs) is in no try,
\* so its ValueError leaves main
MainStart ==
    /\ mpc = "start"
    /\ IF \E k \in 1..Min(Len(input_paths), MaxShow) : relpath_raises(input_paths[k])
       THEN mpc' = "raised" /\ UNCHANGED exitcode
       ELSE IF input_paths = <<>>
       THEN mpc' = "done" /\ exitcode' = 0
       ELSE IF arg.output # NoOutput /\ Len(input_paths) # 1
       THEN mpc' = "done" /\ exitcode' = 2
       ELSE mpc' = "loop" /\ UNCHANGED exitcode
    /\ converted' = 0 /\ skipped' = 0 /\ failed' = 0
    /\ UNCHANGED <<input_paths, fs, idx, log>>
    /\ UNCHANGED <<scanvars, convvars>>

\* lines 373-376; the relpath of line 375 is in no try, so its ValueError
\* leaves main after skipped += 1
MainSkip ==
    /\ mpc = "loop"
    /\ cpc = ""
    /\ idx < Len(input_paths)
    /\ has_matching_csv(input_paths[idx + 1])
    /\ skipped' = skipped + 1
    /\ IF relpath_raises(input_paths[idx + 1])
       THEN mpc' = "raised" /\ UNCHANGED <<log, idx>>
       ELSE /\ log' = Append(log, Line(idx + 1, input_paths[idx + 1], "Skip"))
            /\ idx' = idx + 1
            /\ UNCHANGED mpc
    /\ UNCHANGED <<input_paths, fs, converted, failed, exitcode>>
    /\ UNCHANGED <<scanvars, convvars>>

\* lines 378-381 and 272-273: convert is called and reads the input.  The
\* relpath of line 379 is inside the try: its ValueError is counted by lines
\* 386-388 before convert is called.  open() of an input that is no file
\* raises at line 272.
MainCallConvert ==
    /\ mpc = "loop"
    /\ cpc = ""
    /\ idx < Len(input_paths)
    /\ ~has_matching_csv(input_paths[idx + 1])
    /\ IF relpath_raises(input_paths[idx + 1])
       THEN /\ failed' = failed + 1
            /\ log' = Append(log, ErrorLine(idx + 1, input_paths[idx + 1], ErrMount))
            /\ idx' = idx + 1
            /\ UNCHANGED <<cpc, text, cret>>
       ELSE /\ log' = Append(log, Line(idx + 1, input_paths[idx + 1], "Converting"))
            /\ IF fs.content[input_paths[idx + 1]] = NoFile
               THEN cpc' = "raised" /\ cret' = Raised(ErrNoFile(input_paths[idx + 1])) /\ UNCHANGED text
               ELSE /\ cpc' = "read"
                    /\ text' = fs.content[input_paths[idx + 1]]
                    /\ UNCHANGED cret
            /\ UNCHANGED <<idx, failed>>
    /\ UNCHANGED <<rows_block, row_tables, rows, fieldnames, csvfile>>
    /\ UNCHANGED <<mpc, input_paths, fs, converted, skipped, exitcode>>
    /\ UNCHANGED scanvars

\* what convert leaves behind when it is over: nothing but the file
ConvOver ==
    /\ cpc' = "" /\ text' = <<>> /\ rows_block' = <<>> /\ row_tables' = <<>>
    /\ rows' = <<>> /\ fieldnames' = <<>> /\ csvfile' = Unopened
    /\ cret' = NoReturn

\* lines 381-388: convert has returned and the file it wrote is at
\* output_path.  The relpath of line 384 comes after converted += 1 and is
\* inside the try: its ValueError is counted by lines 386-388 as well.
MainConverted ==
    /\ mpc = "loop"
    /\ cpc = "returned"
    /\ fs' = [fs EXCEPT !.csv[output_path(input_paths[idx + 1])] = csvfile]
    /\ converted' = converted + 1
    /\ IF relpath_raises(output_path(input_paths[idx + 1]))
       THEN /\ failed' = failed + 1
            /\ log' = Append(log, ErrorLine(idx + 1, input_paths[idx + 1], ErrMount))
       ELSE /\ log' = log \o <<WroteLine(idx + 1, output_path(input_paths[idx + 1]), cret.n),
                               Line(idx + 1, input_paths[idx + 1], "Done")>>
            /\ UNCHANGED failed
    /\ idx' = idx + 1
    /\ ConvOver
    /\ UNCHANGED <<mpc, input_paths, skipped, exitcode>>
    /\ UNCHANGED scanvars

\* lines 386-388: convert has raised; a file it had opened stays as it is
MainFailed ==
    /\ mpc = "loop"
    /\ cpc = "raised"
    /\ fs' = IF csvfile.opened
             THEN [fs EXCEPT !.csv[output_path(input_paths[idx + 1])] = csvfile]
             ELSE fs
    /\ failed' = failed + 1
    /\ log' = Append(log, ErrorLine(idx + 1, input_paths[idx + 1], cret.exc))
    /\ idx' = idx + 1
    /\ ConvOver
    /\ UNCHANGED <<mpc, input_paths, converted, skipped, exitcode>>
    /\ UNCHANGED scanvars

\* lines 390-400
MainFinish ==
    /\ mpc = "loop"
    /\ cpc = ""
    /\ idx = Len(input_paths)
    /\ exitcode' = IF failed > 0 THEN 2 ELSE 0
    /\ mpc' = "done"
    /\ UNCHANGED <<input_paths, fs, idx, converted, skipped, failed, log>>
    /\ UNCHANGED <<scanvars, convvars>>

NextMain ==
    \/ MainStart
    \/ MainSkip
    \/ MainCallConvert
    \/ MainConverted
    \/ MainFailed
    \/ MainFinish
    \/ NextConvert

\* main on a list of inputs, convert running inside its loop
SpecMain == InitMain /\ [][NextMain]_vars

\* the lines of the log of the given kinds
RECURSIVE LinesOf(_, _)
LinesOf(l, kinds) ==
    IF l = <<>> THEN <<>>
    ELSE IF Head(l).kind \in kinds THEN <<Head(l)>> \o LinesOf(Tail(l), kinds)
    ELSE LinesOf(Tail(l), kinds)

\* main reaches its for loop
LoopEntered ==
    /\ input_paths # <<>>
    /\ ~(arg.output # NoOutput /\ Len(input_paths) # 1)
    /\ \A k \in 1..Min(Len(input_paths), MaxShow) : ~relpath_raises(input_paths[k])

\* C3: in the batch loop every input is visited once, in list order; a
\* failure at one input does not keep the loop from the inputs after it; and
\* converted + skipped + failed counts every input visited, each in one of
\* the three, so that they add up to the number of inputs when the loop ends.
C3_BatchLoop ==
    mpc \in {"loop", "done", "raised"} /\ LoopEntered =>
        LET visits == LinesOf(log, {"Skip", "Converting"})
            outcomes == LinesOf(log, {"Skip", "Done", "ERROR"})
        IN  /\ mpc # "raised"
            /\ Len(outcomes) = idx
            /\ \A k \in 1..idx : outcomes[k].idx = k
            /\ \A k \in 1..Len(visits) :
                  visits[k].idx = k /\ visits[k].path = input_paths[k]
            /\ skipped = Len(LinesOf(log, {"Skip"}))
            /\ converted = Len(LinesOf(log, {"Done"}))
            /\ failed = Len(LinesOf(log, {"ERROR"}))
            /\ converted + skipped + failed = idx
            /\ idx <= Len(input_paths)
            /\ cpc # "" => mpc = "loop" /\ idx < Len(input_paths)
            /\ mpc = "done" => idx = Len(input_paths)

----------------------------------------------------------------------------
(* _skip_lua_string on every short text, at every quote of it.             *)

InitSkip ==
    /\ ConvIdle /\ MainIdle
    /\ fn = "skip_string"
    /\ arg \in [text : ScanTexts, i : 0..MaxScanLen]
    /\ arg.i < Len(arg.text)
    /\ At(arg.text, arg.i) = "\""
    /\ ret = <<>>

\* one call of _skip_lua_string(text, i)
ApplySkip ==
    /\ fn = "skip_string"
    /\ ret' = skip_lua_string(arg.text, arg.i)
    /\ fn' = "skipped"
    /\ UNCHANGED <<arg, convvars, mainvars>>

NextSkip == ApplySkip

SpecSkip == InitSkip /\ [][NextSkip]_vars

\* the closing quotes of the string opened at text[i]: the quotes after i
\* that no backslash escapes
ClosingQuotes(t, i) ==
    {k \in (i + 1)..(Len(t) - 1) : ModeAfter(t, i, k, "code") = "str" /\ At(t, k) = "\""}

\* C11: when text[i] is '"', skip_string returns the index just past the
\* first unescaped closing quote after i, or len(text) when the string is
\* unterminated; the index returned never exceeds len(text), also when a
\* backslash is the last character.
C11_SkipWithinText ==
    fn = "skipped" =>
        /\ ret \in Int
        /\ ret <= Len(arg.text)
        /\ ret = IF ClosingQuotes(arg.text, arg.i) = {}
                 THEN Len(arg.text)
                 ELSE Least(ClosingQuotes(arg.text, arg.i)) + 1

----------------------------------------------------------------------------
(* The scanning loops, one iteration at a time.                            *)

\* what an iteration leaves: the loop goes on ("loop"), the function returns
\* or raises; i is the cursor, acc what the loop carries (the depth, the
\* number of rows captured, the row)
LoopState(kind, i, acc) == [kind |-> kind, i |-> i, acc |-> acc]

\* one iteration of the while loop of _extract_balanced_braces (lines 87-98)
\* or, with the loop condition false, line 100
balanced_step(t, i, depth) ==
    IF i >= Len(t) THEN LoopState("raise", i, depth)
    ELSE IF At(t, i) = "\"" THEN LoopState("loop", skip_lua_string(t, i), depth)
    ELSE IF At(t, i) = "{" THEN LoopState("loop", i + 1, depth + 1)
    ELSE IF At(t, i) = "}" THEN
         IF depth - 1 = 0 THEN LoopState("return", i, depth - 1)
         ELSE LoopState("loop", i + 1, depth - 1)
    ELSE LoopState("loop", i + 1, depth)

\* A splitter that leaves the cursor on an unexpected character.
row_tables_step_keeping_stray(inner, i, n) ==
    IF i >= Len(inner) THEN LoopState("return", i, n)
    ELSE IF IsSpace(At(inner, i)) \/ At(inner, i) = "," THEN LoopState("loop", i + 1, n)
    ELSE IF At(inner, i) = "\"" THEN LoopState("loop", skip_lua_string(inner, i), n)
    ELSE IF At(inner, i) # "{" THEN LoopState("loop", i, n)
    ELSE LET row_text == extract_balanced_braces(inner, i) IN
         IF row_text.exc # NoExc THEN LoopState("raise", i, n)
         ELSE LoopState("loop", i + Len(row_text.val), n + 1)

\* one iteration of the while loop of _extract_row_tables (lines 126-141) or,
\* with the loop condition false, line 143
row_tables_step(inner, i, n) ==
    IF i >= Len(inner) THEN LoopState("return", i, n)
    ELSE IF IsSpace(At(inner, i)) \/ At(inner, i) = "," THEN LoopState("loop", i + 1, n)
    ELSE IF At(inner, i) = "\"" THEN LoopState("loop", skip_lua_string(inner, i), n)
    ELSE IF At(inner, i) # "{" THEN LoopState("loop", i + 1, n)
    ELSE LET row_text == extract_balanced_braces(inner, i) IN
         IF row_text.exc # NoExc THEN LoopState("raise", i, n)
         ELSE LoopState("loop", i + Len(row_text.val), n + 1)

\* one iteration of the while loop of _parse_row_table (lines 207-247) or,
\* with the loop condition false or at a break, line 249
row_table_step(s, i, row) ==
    IF i >= Len(s) THEN LoopState("return", i, row)
    ELSE
    LET key_start == Find(s, <<"[", "\"">>, i) IN
    IF key_start = -1 THEN LoopState("return", i, row)
    ELSE
    LET key_end == Find(s, <<"\"", "]">>, key_start + 2) IN
    IF key_end = -1 THEN LoopState("return", i, row)
    ELSE
    LET key == Slice(s, key_start + 2, key_end)
        eq_pos == Find(s, <<"=">>, key_end + 2)
    IN
    IF eq_pos = -1 THEN LoopState("return", i, row)
    ELSE
    LET j == skip_spaces(s, eq_pos + 1) IN
    IF j >= Len(s) THEN LoopState("return", i, row)
    ELSE IF At(s, j) = "\"" THEN
         LET r == parse_lua_string(s, j)
         IN  LoopState("loop", r[2], DictSet(row, key, VStr(r[1])))
    ELSE IF At(s, j) = "{" THEN
         LET raw == extract_balanced_braces(s, j)
         IN  IF raw.exc # NoExc THEN LoopState("raise", i, row)
             ELSE LoopState("loop", j + Len(raw.val), DictSet(row, key, VStr(raw.val)))
    ELSE LET k == token_end(s, j)
         IN  LoopState("loop", k, DictSet(row, key, parse_scalar(Slice(s, j, k))))

\* a text cut off anywhere
Truncations(t) == {SubSeq(t, 1, n) : n \in 0..Len(t)}

\* what _extract_row_tables walks: the inside of an array, whole, truncated
\* or malformed
ArrayInners ==
    ScanTexts \cup UNION {Truncations(RenderRecords(<<rec>>)) : rec \in Records}

\* what _parse_row_table walks: the inside of a record, whole, truncated or
\* malformed
RecordInners ==
    ScanTexts \cup UNION {Truncations(RenderMembers(rec)) : rec \in Records}

\* the state of a running loop: what the last step left, and the number of
\* steps taken
Counted(st, n) == [kind |-> st.kind, i |-> st.i, acc |-> st.acc, iters |-> n]

InitLoops ==
    /\ ConvIdle /\ MainIdle
    /\ \/ /\ fn = "_extract_balanced_braces"
          /\ arg \in [text : ScanTexts, start : 0..MaxScanLen]
          /\ arg.start < Len(arg.text)
          /\ At(arg.text, arg.start) = "{"
          /\ ret = Counted(LoopState("loop", arg.start, 0), 0)
       \/ /\ fn = "_extract_row_tables"
          /\ arg \in [text : ArrayInners, start : {0}]
          /\ ret = Counted(LoopState("loop", 0, 0), 0)
       \/ /\ fn = "_parse_row_table"
          /\ arg \in [text : RecordInners, start : {0}]
          /\ ret = Counted(LoopState("loop", 0, <<>>), 0)

StepBalanced ==
    /\ fn = "_extract_balanced_braces"
    /\ ret.kind = "loop"
    /\ ret' = Counted(balanced_step(arg.text, ret.i, ret.acc), ret.iters + 1)
    /\ UNCHANGED <<fn, arg, convvars, mainvars>>

StepRowTables ==
    /\ fn = "_extract_row_tables"
    /\ ret.kind = "loop"
    /\ ret' = Counted(row_tables_step(arg.text, ret.i, ret.acc), ret.iters + 1)
    /\ UNCHANGED <<fn, arg, convvars, mainvars>>

StepRowTable ==
    /\ fn = "_parse_row_table"
    /\ ret.kind = "loop"
    /\ ret' = Counted(row_table_step(arg.text, ret.i, ret.acc), ret.iters + 1)
    /\ UNCHANGED <<fn, arg, convvars, mainvars>>

NextLoops == StepBalanced \/ StepRowTables \/ StepRowTable

SpecLoops == InitLoops /\ [][NextLoops]_vars

\* what the stepped loop leaves is what the function returns
LoopsAgree ==
    ret.kind # "loop" =>
        IF fn = "_extract_balanced_braces"
        THEN LET r == extract_balanced_braces(arg.text, arg.start)
             IN  IF ret.kind = "raise" THEN r = Raise(ErrUnbalanced)
                 ELSE r = Ok(Slice(arg.text, arg.start, ret.i + 1))
        ELSE IF fn = "_extract_row_tables"
        THEN LET r == row_tables_loop(arg.text, 0, <<>>)
             IN  IF ret.kind = "raise" THEN r.exc # NoExc
                 ELSE r.exc = NoExc /\ Len(r.val) = ret.acc
        ELSE LET r == row_table_loop(arg.text, 0, <<>>)
             IN  IF ret.kind = "raise" THEN r.exc # NoExc
                 ELSE r = Ok(ret.acc)

\* C12: in extract_balanced, split_top_level and parse_record every
\* iteration moves the cursor forward and is only taken with the cursor
\* inside the text, so a loop over a text of n characters is over after at
\* most n iterations, on malformed and truncated text too.
C12_LoopsTerminate ==
    /\ [](ret.iters <= Len(arg.text) + 1)
    /\ [][ret'.kind = "loop" => ret.i < Len(arg.text) /\ ret'.i > ret.i]_vars

\* a record cut off inside its second member: one iteration, then the end
C12_Witness ==
    /\ fn = "_parse_row_table"
    /\ arg.text = <<"[", "\"", "a", "\"", "]", " ", "=", " ", "1", ",", "\n",
                    "[", "\"", "a", "\"", "]", " ", "=", " ">>
    /\ ret = Counted(LoopState("return", 9, <<[key |-> N_a, val |-> VInt(1)]>>), 2)

====
